---- MODULE Spec2Model ----
(***************************************************************************)
(* Avantus Analytics: the Odds API service (backend/services/              *)
(* odds_api_service.py) with its time-bounded cache, the routes and the    *)
(* best-odds comparison of backend/app.py, and the sportsbook scrapers of  *)
(* backend/scrapers with their per-instance cache.                         *)
(*                                                                         *)
(* Python values.  A value that may be None (the result of dict.get, an    *)
(* optional argument) is a sequence of length at most one: None is <<>>    *)
(* and a present value v is <<v>>.  A dict is a function on its keys.      *)
(***************************************************************************)
EXTENDS Integers, Sequences, FiniteSets, TLC

VARIABLES
    api_key,      \* OddsAPIService.api_key: "" when no key is configured
    cache,        \* OddsAPIService.cache: key -> <<data, timestamp>>
    now,          \* the wall clock read by datetime.now(), in seconds
    call,         \* the last service call: arguments, result, what it saw and did
    stored_by,    \* history: key -> the arguments of the fetch that stored it
    ncalls,       \* number of service calls made so far
    game,         \* the argument of _compare_bookmaker_odds
    comparison,   \* its return value, None before the call
    raw,          \* the data argument of _transform_odds_data
    normalized,   \* its return value, None before the call
    http,         \* the last HTTP request served by app.py and its response
    american_odds,\* the argument of calculate_implied_probability
    probability,  \* its return value, None before the call
    heap,         \* the response dicts by object identity
    held,         \* the object a caller of get_nfl_odds got back
    stored_value, \* history: key -> the response as it was when stored
    threads,      \* the requests in flight: thread -> its locals and position
    scraper_cache,\* BaseScraper.cache of a scraper: key -> <<data, timestamp>>
    scrape,       \* the last scrape_nfl_games call or scrape request
    scrape_stored,\* history: sportsbook -> <<games, time>> of its last store
    cache_op      \* the last call of a cache method: get or set, and its result

transformVars == <<raw, normalized>>
probVars == <<american_odds, probability>>
aliasVars == <<heap, held, stored_value>>
scraperVars == <<scraper_cache, scrape, scrape_stored, cache_op>>
laterVars == <<transformVars, http, probVars, aliasVars, threads, scraperVars>>

vars == <<api_key, cache, now, call, stored_by, ncalls, game, comparison,
          laterVars>>

None == <<>>
Some(v) == <<v>>

\* The parts of the state a specification does not use stay as they start.
TransformIdle == raw = None /\ normalized = None
HttpIdle == http = None
ProbIdle == american_odds = 0 /\ probability = None
AliasIdle == heap = <<>> /\ held = None /\ stored_value = <<>>
ConcIdle == threads = <<>>
ScraperIdle ==
    scraper_cache = <<>> /\ scrape = None /\ scrape_stored = <<>> /\ cache_op = None

\* dict.get(k): None when the key is absent
Get(d, k) == IF k \in DOMAIN d THEN Some(d[k]) ELSE None

\* d[k] = v on a dict
Put(d, k, v) == [x \in DOMAIN d \cup {k} |-> IF x = k THEN v ELSE d[x]]

\* sep.join(parts)
RECURSIVE Join(_, _)
Join(parts, sep) ==
    IF Len(parts) = 0 THEN ""
    ELSE IF Len(parts) = 1 THEN parts[1]
    ELSE parts[1] \o sep \o Join(Tail(parts), sep)

(***************************************************************************)
(* Bounds of the model.                                                    *)
(***************************************************************************)
MaxCalls == 2       \* service calls in one behaviour
MaxNow == 450       \* the clock stops advancing here
MaxBooks == 2       \* bookmakers of a compared game
MaxEvents == 2      \* events of a raw batch
MaxOdds == 300      \* largest magnitude of American odds

TickSteps == {150}  \* seconds between two observations of the clock

cache_duration == 300

DEFAULT_MARKETS == <<"h2h", "spreads", "totals">>

\* The markets argument of get_nfl_odds: None, or a list of market keys.
MarketArgs ==
    {None, Some(<<"h2h", "spreads">>), Some(<<"spreads", "h2h">>)}

\* The sportsbooks argument of get_nfl_odds: None, or a list of keys.
SportsbookArgs == {None, Some(<<"draftkings">>)}

ALL_BOOKS == <<"draftkings", "fanduel">>

(***************************************************************************)
(* The upstream aggregator (The Odds API), as session.get sees it.         *)
(* A response is a network failure, or a status code with a JSON body.     *)
(* A JSON body is tagged with its type; an event of the list is a tagged   *)
(* JSON value too, the dicts nested inside an event are plain functions.   *)
(***************************************************************************)
JsonList(items) == [type |-> "list", items |-> items]
JsonObject(members) == [type |-> "object", members |-> members]
JsonNumber(n) == [type |-> "number", value |-> n]

Outcome(name, price) == [name |-> name, price |-> price]

\* What a bookmaker quotes in one market of the Chiefs - Bills game.
FeedMarket(book, m) ==
    IF m = "h2h" THEN
        [key |-> "h2h",
         outcomes |-> IF book = "draftkings"
                      THEN <<Outcome("Chiefs", -150), Outcome("Bills", 130)>>
                      ELSE <<Outcome("Chiefs", -140), Outcome("Bills", 140)>>]
    ELSE IF m = "spreads" THEN
        [key |-> "spreads",
         outcomes |-> <<[name |-> "Chiefs", price |-> -110, point |-> -3],
                        [name |-> "Bills", price |-> -110, point |-> 3]>>]
    ELSE
        [key |-> "totals",
         outcomes |-> <<[name |-> "Over", price |-> -110, point |-> 47],
                        [name |-> "Under", price |-> -110, point |-> 47]>>]

FeedBookmaker(book, markets) ==
    [key |-> book, title |-> book, last_update |-> "t0",
     markets |-> [i \in DOMAIN markets |-> FeedMarket(book, markets[i])]]

\* Upstream's reading of the comma-separated markets parameter.
SplitMarkets(joined) ==
    CHOOSE m \in {DEFAULT_MARKETS} \cup {a[1] : a \in MarketArgs \ {None}} :
        Join(m, ",") = joined

\* The events upstream returns for the query parameters: the bookmakers
\* filter restricts the bookmakers, the markets parameter the markets.
UpstreamFeed(params) ==
    LET books == IF "bookmakers" \in DOMAIN params
                 THEN params.bookmakers ELSE ALL_BOOKS
        markets == SplitMarkets(params.markets)
    IN JsonList(<<JsonObject(
           [id |-> "evt1", sport_key |-> "americanfootball_nfl",
            commence_time |-> "t1",
            home_team |-> "Chiefs", away_team |-> "Bills",
            bookmakers |-> [i \in DOMAIN books |->
                               FeedBookmaker(books[i], markets)]])>>)

NetworkError == [kind |-> "RequestException"]
HttpResponse(status, body) == [kind |-> "response", status |-> status, body |-> body]

\* Everything session.get(url, params, timeout=10) can produce for the odds
\* endpoint, by the behaviour upstream chooses: a connection error or
\* timeout, an error status, the feed, or a 200 whose body is not a list of
\* events (a JSON object, a JSON number).
UpstreamBehaviours == {"network", "status", "feed", "object", "number"}

OddsResponse(behaviour, params) ==
    IF behaviour = "network" THEN NetworkError
    ELSE IF behaviour = "status"
        THEN HttpResponse(500, JsonObject([message |-> "server error"]))
    ELSE IF behaviour = "feed" THEN HttpResponse(200, UpstreamFeed(params))
    ELSE IF behaviour = "object"
        THEN HttpResponse(200, JsonObject([message |-> "quota"]))
    ELSE HttpResponse(200, JsonNumber(0))

\* response.raise_for_status()
raise_for_status(response) == response.status >= 400 /\ response.status < 600

(***************************************************************************)
(* Normalizer: OddsAPIService._parse_market and _transform_odds_data.      *)
(* An operator that can raise returns None for the exception and           *)
(* Some(value) for a normal return.                                        *)
(***************************************************************************)
GetOr(d, k, default) == IF k \in DOMAIN d THEN d[k] ELSE default

\* The largest index of seq whose element satisfies the name test: a dict
\* assignment in a loop keeps the last value written under a key.
LastIndex(seq, S) == CHOOSE i \in S : \A j \in S : j <= i

_parse_market(market) ==
    LET market_key == Get(market, "key")
        outcomes == GetOr(market, "outcomes", <<>>)
    IN IF market_key \in {Some("h2h"), Some("spreads"), Some("totals")}
       THEN IF \E i \in DOMAIN outcomes : "name" \notin DOMAIN outcomes[i]
            THEN None       \* outcome['name'] raises KeyError
            ELSE Some([n \in {outcomes[i].name : i \in DOMAIN outcomes} |->
                       LET i == LastIndex(outcomes,
                                    {j \in DOMAIN outcomes : outcomes[j].name = n})
                       IN [price |-> Get(outcomes[i], "price"),
                           point |-> Get(outcomes[i], "point")]])
       ELSE Some(<<>>)

\* One pass of the bookmaker loop body: book_data, or None when a market
\* raised.  Raw markets carry their 'key' (the upstream schema).
BookData(bookmaker) ==
    LET markets == GetOr(bookmaker, "markets", <<>>)
    IN IF \E i \in DOMAIN markets : _parse_market(markets[i]) = None
       THEN None
       ELSE Some([key |-> Get(bookmaker, "key"),
                  title |-> Get(bookmaker, "title"),
                  last_update |-> Get(bookmaker, "last_update"),
                  markets |->
                     [k \in {markets[i].key : i \in DOMAIN markets} |->
                        _parse_market(markets[
                            LastIndex(markets,
                                {j \in DOMAIN markets : markets[j].key = k})])[1]]])

\* The body of the event loop: the game, or None when the try block raised
\* (event.get on a non-dict, or a KeyError below) and the event is skipped.
TransformEvent(item) ==
    IF item.type # "object" THEN None
    ELSE LET event == item.members
             bookmakers == GetOr(event, "bookmakers", <<>>)
         IN IF \E i \in DOMAIN bookmakers : BookData(bookmakers[i]) = None
            THEN None
            ELSE Some([id |-> Get(event, "id"),
                       sport |-> Get(event, "sport_key"),
                       commence_time |-> Get(event, "commence_time"),
                       home_team |-> Get(event, "home_team"),
                       away_team |-> Get(event, "away_team"),
                       bookmakers |-> [i \in DOMAIN bookmakers |->
                                          BookData(bookmakers[i])[1]]])

\* What `for event in data` iterates over: the items of a list, the keys of
\* a dict; None when data is not iterable (TypeError).
IterItems(data) ==
    IF data.type = "list" THEN Some(data.items)
    ELSE IF data.type = "object" THEN
        LET keys == DOMAIN data.members
            order == CHOOSE f \in [1..Cardinality(keys) -> keys] :
                         \A k \in keys : \E i \in DOMAIN f : f[i] = k
        IN Some([i \in DOMAIN order |-> [type |-> "string", value |-> order[i]]])
    ELSE None

RECURSIVE SkipNone(_)
SkipNone(seq) ==
    IF Len(seq) = 0 THEN <<>>
    ELSE (IF Head(seq) = None THEN <<>> ELSE <<Head(seq)[1]>>) \o SkipNone(Tail(seq))

_transform_odds_data(data, markets, clock) ==
    LET items == IterItems(data)
    IN IF items = None THEN None
       ELSE LET games == SkipNone([i \in DOMAIN items[1] |->
                                      TransformEvent(items[1][i])])
            IN Some([games |-> games, count |-> Len(games), timestamp |-> clock])

(***************************************************************************)
(* The cache of OddsAPIService.                                            *)
(***************************************************************************)
\* StillValid with the boundary instant counted as valid
StillValid_inclusive(timestamp, clock) == clock - timestamp <= cache_duration

\* datetime.now() - timestamp < timedelta(seconds=self.cache_duration)
StillValid(timestamp, clock) == clock - timestamp < cache_duration

_get_cached_data(c, key, clock) ==
    IF key \in DOMAIN c /\ StillValid(c[key][2], clock)
    THEN Some(c[key][1])
    ELSE None

\* _set_cached_data replacing the whole map by the one new entry
_set_cached_data_alone(c, key, data, clock) == Put(<<>>, key, <<data, clock>>)

_set_cached_data(c, key, data, clock) == Put(c, key, <<data, clock>>)

\* cache_key = f"nfl_odds_{','.join(markets)}"
cache_key(markets) == "nfl_odds_" \o Join(markets, ",")

\* Truthy that takes every lookup for a miss
Truthy_never(cached) == FALSE

\* `if cached:` -- None and the empty dict are false
Truthy(cached) == cached # None /\ DOMAIN cached[1] # {}

(***************************************************************************)
(* OddsAPIService.get_nfl_odds.  The operators return what the call        *)
(* returns and does: result, the cache afterwards, and the number of       *)
(* upstream requests, cache lookups and cache stores it made.              *)
(***************************************************************************)
Done(result, c, upstream, reads, writes) ==
    [result |-> result, cache |-> c,
     upstream |-> upstream, reads |-> reads, writes |-> writes]

\* OnException with the error result stored like a response
OnException_stored(c, key, e, clock) ==
    Done([error |-> e, games |-> <<>>],
         _set_cached_data(c, key, [error |-> e, games |-> <<>>], clock), 1, 1, 1)

\* the two except clauses: log, return {'error': str(e), 'games': []}
OnException(c, key, e, clock) == Done([error |-> e, games |-> <<>>], c, 1, 1, 0)

\* the try block, from the params to `return result`
FetchOdds(c, key, markets, sportsbooks, behaviour, clock) ==
    LET base == [apiKey |-> api_key, regions |-> "us",
                 markets |-> Join(markets, ","),
                 oddsFormat |-> "american", dateFormat |-> "iso"]
        params == IF sportsbooks # None /\ Len(sportsbooks[1]) > 0
                  THEN [k \in DOMAIN base \cup {"bookmakers"} |->
                           IF k = "bookmakers" THEN sportsbooks[1] ELSE base[k]]
                  ELSE base
        response == OddsResponse(behaviour, params)
    IN IF response.kind = "RequestException"
       THEN OnException(c, key, "RequestException", clock)
       ELSE IF raise_for_status(response)
       THEN OnException(c, key, "HTTPError", clock)
       ELSE LET result == _transform_odds_data(response.body, markets, clock)
            IN IF result = None
               THEN OnException(c, key, "TypeError", clock)
               ELSE Done(result[1],
                         _set_cached_data(c, key, result[1], clock), 1, 1, 1)

\* after the API key check: default markets, cache lookup, fetch on a miss
CachedOrFetch(c, markets_arg, sportsbooks, behaviour, clock) ==
    LET markets == IF markets_arg = None THEN DEFAULT_MARKETS ELSE markets_arg[1]
        key == cache_key(markets)
        cached == _get_cached_data(c, key, clock)
    IN IF Truthy(cached)
       THEN Done(cached[1], c, 0, 1, 0)
       ELSE FetchOdds(c, key, markets, sportsbooks, behaviour, clock)

\* get_nfl_odds without the API key check
get_nfl_odds_unguarded(c, markets_arg, sportsbooks, behaviour, clock) ==
    CachedOrFetch(c, markets_arg, sportsbooks, behaviour, clock)

get_nfl_odds(c, markets_arg, sportsbooks, behaviour, clock) ==
    IF api_key = ""
    THEN Done([error |-> "No API key configured", games |-> <<>>], c, 0, 0, 0)
    ELSE CachedOrFetch(c, markets_arg, sportsbooks, behaviour, clock)

(***************************************************************************)
(* OddsAPIService.get_nfl_event_odds and get_available_sports.  Neither    *)
(* uses the cache.  A raw response.json() value is a tagged JSON value.    *)
(***************************************************************************)
EventIds == {"evt1", "unknown"}

EventResponse(behaviour, event_id) ==
    IF behaviour = "network" THEN NetworkError
    ELSE IF behaviour = "status"
        THEN HttpResponse(500, JsonObject([message |-> "server error"]))
    ELSE IF event_id = "evt1"
        THEN HttpResponse(200, JsonObject([id |-> "evt1", home_team |-> "Chiefs",
                                           away_team |-> "Bills"]))
    ELSE HttpResponse(404, JsonObject([message |-> "event not found"]))

get_nfl_event_odds(c, event_id, behaviour) ==
    IF api_key = ""
    THEN Done([error |-> "No API key configured"], c, 0, 0, 0)
    ELSE LET response == EventResponse(behaviour, event_id)
         IN IF response.kind = "RequestException"
            THEN Done([error |-> "RequestException"], c, 1, 0, 0)
            ELSE IF raise_for_status(response)
            THEN Done([error |-> "HTTPError"], c, 1, 0, 0)
            ELSE Done(response.body, c, 1, 0, 0)

SportsResponse(behaviour) ==
    IF behaviour = "network" THEN NetworkError
    ELSE IF behaviour = "status"
        THEN HttpResponse(500, JsonObject([message |-> "server error"]))
    ELSE HttpResponse(200, JsonList(<<JsonObject([key |-> "americanfootball_nfl"])>>))

\* `return []` is the empty JSON list
get_available_sports(c, behaviour) ==
    IF api_key = ""
    THEN Done(JsonList(<<>>), c, 0, 0, 0)
    ELSE LET response == SportsResponse(behaviour)
         IN IF response.kind = "RequestException" \/ raise_for_status(response)
            THEN Done(JsonList(<<>>), c, 1, 0, 0)
            ELSE Done(response.body, c, 1, 0, 0)

(***************************************************************************)
(* The service as a state machine: one action per public method, and the   *)
(* passing of time.                                                        *)
(***************************************************************************)
NoCall ==
    [op |-> "none", markets |-> None, sportsbooks |-> None, key |-> None,
     age |-> None, behaviour |-> "none", result |-> None,
     upstream |-> 0, reads |-> 0, writes |-> 0]

\* OddsAPIService.__init__: the key from the environment, an empty cache
Init ==
    /\ api_key \in {"", "test-key"}
    /\ cache = <<>>
    /\ now = 0
    /\ call = NoCall
    /\ stored_by = <<>>
    /\ ncalls = 0
    /\ game = None
    /\ comparison = None
    /\ TransformIdle /\ HttpIdle /\ ProbIdle /\ AliasIdle /\ ConcIdle /\ ScraperIdle

\* call.key is the key the call looked up (None without a lookup), call.age
\* the age of the entry found under it (None when there was none), and
\* call.behaviour what upstream did when the call reached it.
Record(op, markets_arg, sportsbooks, key, behaviour, r) ==
    [op |-> op, markets |-> markets_arg, sportsbooks |-> sportsbooks,
     key |-> key,
     age |-> IF key # None /\ key[1] \in DOMAIN cache
             THEN Some(now - cache[key[1]][2]) ELSE None,
     behaviour |-> IF r.upstream = 0 THEN "none" ELSE behaviour,
     result |-> r.result, upstream |-> r.upstream,
     reads |-> r.reads, writes |-> r.writes]

GetNflOdds ==
    /\ ncalls < MaxCalls
    /\ \E markets_arg \in MarketArgs, sportsbooks \in SportsbookArgs,
          behaviour \in UpstreamBehaviours :
         LET r == get_nfl_odds(cache, markets_arg, sportsbooks, behaviour, now)
             key == cache_key(IF markets_arg = None THEN DEFAULT_MARKETS
                              ELSE markets_arg[1])
         IN /\ cache' = r.cache
            /\ call' = Record("get_nfl_odds", markets_arg, sportsbooks,
                              IF r.reads = 0 THEN None ELSE Some(key),
                              behaviour, r)
            /\ stored_by' =
                 IF r.writes = 0 THEN stored_by
                 ELSE Put(stored_by, key,
                          [markets |-> markets_arg, sportsbooks |-> sportsbooks])
    /\ ncalls' = ncalls + 1
    /\ UNCHANGED <<api_key, now, game, comparison, laterVars>>

GetNflEventOdds ==
    /\ ncalls < MaxCalls
    /\ \E event_id \in EventIds, behaviour \in UpstreamBehaviours :
         LET r == get_nfl_event_odds(cache, event_id, behaviour)
         IN /\ cache' = r.cache
            /\ call' = Record("get_nfl_event_odds", None, None, None, behaviour, r)
    /\ ncalls' = ncalls + 1
    /\ UNCHANGED <<api_key, now, stored_by, game, comparison, laterVars>>

GetAvailableSports ==
    /\ ncalls < MaxCalls
    /\ \E behaviour \in UpstreamBehaviours :
         LET r == get_available_sports(cache, behaviour)
         IN /\ cache' = r.cache
            /\ call' = Record("get_available_sports", None, None, None, behaviour, r)
    /\ ncalls' = ncalls + 1
    /\ UNCHANGED <<api_key, now, stored_by, game, comparison, laterVars>>

Tick ==
    /\ \E dt \in TickSteps : now + dt <= MaxNow /\ now' = now + dt
    /\ UNCHANGED <<api_key, cache, call, stored_by, ncalls, game, comparison,
                   laterVars>>

Next == GetNflOdds \/ GetNflEventOdds \/ GetAvailableSports \/ Tick

Spec == Init /\ [][Next]_vars

(***************************************************************************)
(* Comparison engine: _compare_bookmaker_odds of app.py.                   *)
(***************************************************************************)
\* PriceSet as `price is not None`
PriceSet_not_none(price) == price # None

\* `if price and ...`: None and 0 are false
PriceSet(price) == price # None /\ price[1] # 0

\* Better with the comparison reversed, and with ties replacing the holder
Better_lower(price, best) == best = None \/ price[1] < best[1].price
Better_or_equal(price, best) == best = None \/ price[1] >= best[1].price

\* `not best or price > best['price']`
Better(price, best) == best = None \/ price[1] > best[1].price

\* `if game[team] in h2h:` and the body below it, for one bookmaker
Moneyline(bookmaker, team, best) ==
    LET h2h == GetOr(bookmaker.markets, "h2h", <<>>)
    IN IF team # None /\ team[1] \in DOMAIN h2h
       THEN LET price == h2h[team[1]].price
            IN IF PriceSet(price) /\ Better(price, best)
               THEN Some([bookmaker |-> bookmaker.title, price |-> price[1]])
               ELSE best
       ELSE best

\* the loop over game.get('bookmakers', []), from bookmaker i on
RECURSIVE MoneylineFrom(_, _, _, _)
MoneylineFrom(bookmakers, team, i, best) ==
    IF i > Len(bookmakers) THEN best
    ELSE MoneylineFrom(bookmakers, team, i + 1,
                       Moneyline(bookmakers[i], team, best))

_compare_bookmaker_odds(g) ==
    LET bookmakers == GetOr(g, "bookmakers", <<>>)
    IN [game |-> [home_team |-> g.home_team, away_team |-> g.away_team,
                  commence_time |-> g.commence_time],
        best_odds |->
          [moneyline |-> [home |-> MoneylineFrom(bookmakers, g.home_team, 1, None),
                          away |-> MoneylineFrom(bookmakers, g.away_team, 1, None)],
           spread |-> [home |-> None, away |-> None],
           total |-> [over |-> None, under |-> None]]]

(***************************************************************************)
(* The games the comparison is checked on: Chiefs (home) - Bills (away),   *)
(* up to MaxBooks bookmakers in every order.  A moneyline side is absent,  *)
(* or has the price null, the unset sentinel 0, or a real price.           *)
(***************************************************************************)
BOOK_TITLES == <<"BookA", "BookB", "BookC", "BookD">>

PriceOptions == {None, Some(0), Some(-110), Some(150)}

\* the h2h dicts: any subset of the two teams, each with a price option
H2hLines ==
    UNION {[teams -> [price : PriceOptions, point : {None}]] :
              teams \in SUBSET {"Chiefs", "Bills"}}

SpreadLine ==
    [t \in {"Chiefs", "Bills"} |->
        [price |-> Some(-110), point |-> Some(IF t = "Chiefs" THEN -3 ELSE 3)]]

TotalLine ==
    [t \in {"Over", "Under"} |-> [price |-> Some(-110), point |-> Some(47)]]

\* the markets dicts of a bookmaker: none, no moneyline, moneyline only, or
\* all three markets
MarketDicts ==
    {<<>>, [k \in {"spreads", "totals"} |->
               IF k = "spreads" THEN SpreadLine ELSE TotalLine]}
    \cup {[k \in {"h2h"} |-> h] : h \in H2hLines}
    \cup {[k \in {"h2h", "spreads", "totals"} |->
              IF k = "h2h" THEN h ELSE IF k = "spreads" THEN SpreadLine
              ELSE TotalLine] : h \in H2hLines}

Games ==
    {[id |-> Some("evt1"), sport |-> Some("americanfootball_nfl"),
      commence_time |-> Some("t1"),
      home_team |-> Some("Chiefs"), away_team |-> Some("Bills"),
      bookmakers |-> [i \in 1..n |->
                        [key |-> Some(BOOK_TITLES[i]), title |-> Some(BOOK_TITLES[i]),
                         last_update |-> Some("t0"), markets |-> ms[i]]]] :
        n \in 0..MaxBooks, ms \in [1..MaxBooks -> MarketDicts]}

InitCompare ==
    /\ api_key = ""
    /\ cache = <<>>
    /\ now = 0
    /\ call = NoCall
    /\ stored_by = <<>>
    /\ ncalls = 0
    /\ game \in {Some(g) : g \in Games}
    /\ comparison = None
    /\ TransformIdle /\ HttpIdle /\ ProbIdle /\ AliasIdle /\ ConcIdle /\ ScraperIdle

\* Compare by a comparison that empties the bookmakers of the game it read
Compare_clearing ==
    /\ comparison = None
    /\ comparison' = Some(_compare_bookmaker_odds(game[1]))
    /\ game' = Some([game[1] EXCEPT !.bookmakers = <<>>])
    /\ UNCHANGED <<api_key, cache, now, call, stored_by, ncalls, laterVars>>

\* comparison = _compare_bookmaker_odds(game), as compare_odds calls it
Compare ==
    /\ comparison = None
    /\ comparison' = Some(_compare_bookmaker_odds(game[1]))
    /\ UNCHANGED <<api_key, cache, now, call, stored_by, ncalls, game, laterVars>>

NextCompare == Compare

SpecCompare == InitCompare /\ [][NextCompare]_vars

(***************************************************************************)
(* The normalizer on its own: _transform_odds_data applied to a raw batch  *)
(* of up to MaxEvents events, each drawn from RawEvents.                   *)
(***************************************************************************)
RawBook(key, markets) ==
    [key |-> key, title |-> key, last_update |-> "t0", markets |-> markets]

RawEvent(id, bookmakers) ==
    JsonObject([id |-> id, sport_key |-> "americanfootball_nfl",
                commence_time |-> "t1",
                home_team |-> "Chiefs", away_team |-> "Bills",
                bookmakers |-> bookmakers])

\* an h2h market with a third outcome that names neither team
DrawMarket ==
    [key |-> "h2h",
     outcomes |-> <<Outcome("Chiefs", -150), Outcome("Bills", 130),
                    Outcome("Draw", 900)>>]

\* a market with an outcome that has no 'name'
NamelessMarket(key) ==
    [key |-> key, outcomes |-> <<Outcome("Chiefs", -110), [price |-> -110]>>]

RawEvents ==
    {RawEvent("ok", <<RawBook("BookA", <<FeedMarket("draftkings", "h2h")>>)>>),
     RawEvent("nobooks", <<>>),
     JsonObject([id |-> "nohome", away_team |-> "Bills",
                 bookmakers |-> <<RawBook("BookA",
                                     <<FeedMarket("draftkings", "h2h")>>)>>]),
     JsonObject([id |-> "noaway", home_team |-> "Chiefs"]),
     RawEvent("draw", <<RawBook("BookA", <<DrawMarket>>)>>),
     RawEvent("badbook",
              <<RawBook("BookA", <<NamelessMarket("h2h")>>),
                RawBook("BookB", <<FeedMarket("fanduel", "h2h")>>)>>),
     RawEvent("badmarket",
              <<RawBook("BookA", <<FeedMarket("draftkings", "h2h"),
                                   NamelessMarket("spreads")>>)>>),
     [type |-> "string", value |-> "not an event"]}

RawBatches ==
    {[i \in 1..n |-> items[i]] : n \in 0..MaxEvents,
                                 items \in [1..MaxEvents -> RawEvents]}

InitTransform ==
    /\ api_key = ""
    /\ cache = <<>>
    /\ now = 0
    /\ call = NoCall
    /\ stored_by = <<>>
    /\ ncalls = 0
    /\ game = None
    /\ comparison = None
    /\ raw \in {Some(JsonList(b)) : b \in RawBatches}
    /\ normalized = None
    /\ HttpIdle /\ ProbIdle /\ AliasIdle /\ ConcIdle /\ ScraperIdle

\* result = self._transform_odds_data(data, markets), as get_nfl_odds calls it
Transform ==
    /\ normalized = None
    /\ normalized' = Some(_transform_odds_data(raw[1], DEFAULT_MARKETS, now))
    /\ UNCHANGED <<api_key, cache, now, call, stored_by, ncalls, game, comparison,
                   raw, http, probVars, aliasVars, threads,
                   scraperVars>>

NextTransform == Transform

SpecTransform == InitTransform /\ [][NextTransform]_vars

(***************************************************************************)
(* The HTTP routes of app.py over the one module-level OddsAPIService.     *)
(* A query parameter is None when absent, or its text as a sequence of     *)
(* pieces in which "," is the separator character.  http is the last       *)
(* request with its response: status, JSON body, and what the service      *)
(* returned to the route.                                                  *)
(***************************************************************************)
\* str.split(','): the pieces between the separators, never an empty list
RECURSIVE Split(_)
Split(text) ==
    IF Len(text) = 0 THEN <<"">>
    ELSE IF Head(text) = "," THEN <<"">> \o Split(Tail(text))
    ELSE LET rest == Split(Tail(text))
         IN <<Head(text) \o Head(rest)>> \o Tail(rest)

DEFAULT_MARKETS_PARAM == <<"h2h", ",", "spreads", ",", "totals">>

MarketParams == {None, Some(<<"h2h", ",", "spreads">>)}
BookmakerParams == {None, Some(<<>>), Some(<<"draftkings">>)}
HomeTeamParams == {None, Some("Chiefs"), Some("Raiders")}
AwayTeamParams == {None, Some("Bills")}

\* jsonify(body), status
Respond(status, body, r) ==
    [status |-> status, body |-> body, service |-> r.result,
     upstream |-> r.upstream, cache |-> r.cache]

\* GET /api/odds/nfl
nfl_odds_route(c, markets_param, bookmakers_param, behaviour, clock) ==
    LET markets == Split(IF markets_param = None THEN DEFAULT_MARKETS_PARAM
                         ELSE markets_param[1])
        bookmakers == IF bookmakers_param # None /\ Len(bookmakers_param[1]) > 0
                      THEN Some(Split(bookmakers_param[1])) ELSE None
        r == get_nfl_odds(c, Some(markets), bookmakers, behaviour, clock)
    IN Respond(200, r.result, r)

\* GET /api/odds/nfl/<event_id>
get_event_odds(c, event_id, behaviour) ==
    LET r == get_nfl_event_odds(c, event_id, behaviour)
    IN Respond(200, r.result, r)

\* `if home_team and g['home_team'] == home_team ... elif away_team and ...`
GameMatches(g, home_team, away_team) ==
    \/ home_team # None /\ g.home_team = home_team
    \/ away_team # None /\ g.away_team = away_team

\* the first game of the list that matches, None when there is none
FindGame(games, home_team, away_team) ==
    LET hits == {i \in DOMAIN games : GameMatches(games[i], home_team, away_team)}
    IN IF hits = {} THEN None
       ELSE Some(games[CHOOSE i \in hits : \A j \in hits : i <= j])

\* GET /api/odds/compare
compare_odds(c, home_team, away_team, behaviour, clock) ==
    LET r == get_nfl_odds(c, None, None, behaviour, clock)
        all_odds == r.result
    IN IF "error" \in DOMAIN all_odds
       THEN Respond(400, all_odds, r)
       ELSE LET found == FindGame(GetOr(all_odds, "games", <<>>),
                                  home_team, away_team)
            IN IF found = None
               THEN Respond(404, [error |-> "Game not found",
                                  home_team |-> home_team,
                                  away_team |-> away_team], r)
               ELSE Respond(200, _compare_bookmaker_odds(found[1]), r)

Request(route, args, behaviour, response) ==
    [route |-> route, args |-> args, behaviour |-> behaviour,
     status |-> response.status, body |-> response.body,
     service |-> response.service, upstream |-> response.upstream]

HandleNflOdds ==
    /\ ncalls < MaxCalls
    /\ \E markets_param \in MarketParams, bookmakers_param \in BookmakerParams,
          behaviour \in UpstreamBehaviours :
         LET response == nfl_odds_route(cache, markets_param, bookmakers_param,
                                        behaviour, now)
         IN /\ cache' = response.cache
            /\ http' = Some(Request("nfl_odds",
                                    [markets |-> markets_param,
                                     bookmakers |-> bookmakers_param],
                                    behaviour, response))
    /\ ncalls' = ncalls + 1
    /\ UNCHANGED <<api_key, now, call, stored_by, game, comparison,
                   transformVars, probVars, aliasVars, threads,
                   scraperVars>>

HandleEventOdds ==
    /\ ncalls < MaxCalls
    /\ \E event_id \in EventIds, behaviour \in UpstreamBehaviours :
         LET response == get_event_odds(cache, event_id, behaviour)
         IN /\ cache' = response.cache
            /\ http' = Some(Request("event_odds", [event_id |-> event_id],
                                    behaviour, response))
    /\ ncalls' = ncalls + 1
    /\ UNCHANGED <<api_key, now, call, stored_by, game, comparison,
                   transformVars, probVars, aliasVars, threads,
                   scraperVars>>

HandleCompare ==
    /\ ncalls < MaxCalls
    /\ \E home_team \in HomeTeamParams, away_team \in AwayTeamParams,
          behaviour \in UpstreamBehaviours :
         LET response == compare_odds(cache, home_team, away_team, behaviour, now)
         IN /\ cache' = response.cache
            /\ http' = Some(Request("compare",
                                    [home_team |-> home_team,
                                     away_team |-> away_team],
                                    behaviour, response))
    /\ ncalls' = ncalls + 1
    /\ UNCHANGED <<api_key, now, call, stored_by, game, comparison,
                   transformVars, probVars, aliasVars, threads,
                   scraperVars>>

NextHttp == HandleNflOdds \/ HandleEventOdds \/ HandleCompare \/ Tick

SpecHttp == Init /\ [][NextHttp]_vars

(***************************************************************************)
(* BaseScraper.calculate_implied_probability over the integer odds         *)
(* -MaxOdds..MaxOdds.  The float the code returns is kept as the exact     *)
(* fraction num/den (den > 0): at these magnitudes the rounding of one     *)
(* division and one multiplication is far below the distance of any        *)
(* result from 0, 50 and 100, and 100/200*100 is exactly 50.0.             *)
(***************************************************************************)
Fraction(num, den) == [num |-> num, den |-> den]

abs(x) == IF x < 0 THEN -x ELSE x

\* calculate_implied_probability with the underdog formula on both branches
calculate_implied_probability_underdog(odds) ==
    IF odds < 0
    THEN Fraction(100 * 100, abs(odds) + 100)
    ELSE Fraction(100 * 100, odds + 100)

calculate_implied_probability(odds) ==
    IF odds < 0
    THEN Fraction(abs(odds) * 100, abs(odds) + 100)
    ELSE Fraction(100 * 100, odds + 100)

InitProb ==
    /\ api_key = ""
    /\ cache = <<>>
    /\ now = 0
    /\ call = NoCall
    /\ stored_by = <<>>
    /\ ncalls = 0
    /\ game = None
    /\ comparison = None
    /\ american_odds \in -MaxOdds..MaxOdds
    /\ probability = None
    /\ TransformIdle /\ HttpIdle /\ AliasIdle /\ ConcIdle /\ ScraperIdle

ImpliedProbability ==
    /\ probability = None
    /\ probability' = Some(calculate_implied_probability(american_odds))
    /\ UNCHANGED <<api_key, cache, now, call, stored_by, ncalls, game, comparison,
                   transformVars, http, american_odds, aliasVars, threads,
                   scraperVars>>

NextProb == ImpliedProbability

SpecProb == InitProb /\ [][NextProb]_vars

(***************************************************************************)
(* get_nfl_odds with Python's object identity.  heap[i] is the value of    *)
(* object i; here the cache maps a key to <<object, timestamp>>, as        *)
(* self.cache[key] = (data, datetime.now()) stores the object it is given. *)
(* held is what the last call handed to its caller: the object, its value  *)
(* at the return, and whether it came from the cache.  stored_value[key]   *)
(* is the value _set_cached_data was last given for the key.               *)
(***************************************************************************)
\* the cache as the service operators read it: every object by its value
Deref(c, h) == [k \in DOMAIN c |-> <<h[c[k][1]], c[k][2]>>]

InitAlias ==
    /\ api_key = "test-key"
    /\ cache = <<>>
    /\ now = 0
    /\ call = NoCall
    /\ stored_by = <<>>
    /\ ncalls = 0
    /\ game = None
    /\ comparison = None
    /\ heap = <<>>
    /\ held = None
    /\ stored_value = <<>>
    /\ TransformIdle /\ HttpIdle /\ ProbIdle /\ ConcIdle /\ ScraperIdle

\* a cache hit returns the stored object itself (`return cached`); a fetch
\* builds a new object, stores it and returns it (`_set_cached_data(cache_key,
\* result)`, `return result`); an error result is a new object and not stored
AliasGetNflOdds ==
    /\ ncalls < MaxCalls
    /\ \E markets_arg \in MarketArgs, behaviour \in UpstreamBehaviours :
         LET r == get_nfl_odds(Deref(cache, heap), markets_arg, None, behaviour, now)
             key == cache_key(IF markets_arg = None THEN DEFAULT_MARKETS
                              ELSE markets_arg[1])
             fresh == Len(heap) + 1
         IN IF r.upstream = 0 /\ r.reads = 1
            THEN /\ held' = Some([object |-> cache[key][1], returned |-> r.result,
                                  hit |-> TRUE, key |-> key])
                 /\ UNCHANGED <<heap, cache, stored_value>>
            ELSE /\ heap' = Append(heap, r.result)
                 /\ held' = Some([object |-> fresh, returned |-> r.result,
                                  hit |-> FALSE, key |-> key])
                 /\ IF r.writes = 1
                    THEN /\ cache' = _set_cached_data(cache, key, fresh, now)
                         /\ stored_value' = Put(stored_value, key, r.result)
                    ELSE UNCHANGED <<cache, stored_value>>
    /\ ncalls' = ncalls + 1
    /\ UNCHANGED <<api_key, now, call, stored_by, game, comparison,
                   transformVars, http, probVars, threads,
                   scraperVars>>

\* the caller changes the dict it was handed: result['games'].clear()
CallerMutates ==
    /\ held # None
    /\ "games" \in DOMAIN heap[held[1].object]
    /\ Len(heap[held[1].object].games) > 0
    /\ heap' = [heap EXCEPT ![held[1].object].games = <<>>]
    /\ UNCHANGED <<api_key, cache, now, call, stored_by, ncalls, game, comparison,
                   transformVars, http, probVars, held, stored_value, threads,
                   scraperVars>>

NextAlias == AliasGetNflOdds \/ CallerMutates \/ Tick

SpecAlias == InitAlias /\ [][NextAlias]_vars

(***************************************************************************)
(* Concurrent requests.  Flask serves each request on its own thread and   *)
(* every thread calls get_nfl_odds on the one module-level service, with   *)
(* no lock around the cache.  A request runs in steps between which the    *)
(* other thread and the clock may move: the start (route, markets, key),   *)
(* the cache lookup, the upstream request with the normalization of its    *)
(* body, and the store.  The lookup is one step: nothing removes a key, so *)
(* a store between `key in self.cache` and the read of the entry is seen   *)
(* as a store before the lookup.  A dict store or read is one indivisible  *)
(* operation of the interpreter, and the tuple is built before the store.  *)
(***************************************************************************)
Threads == {"t1", "t2"}

\* what a request passes as markets: /api/odds/compare calls get_nfl_odds()
RouteMarkets == {<<"compare", None>>, <<"nfl_odds", None>>,
                 <<"nfl_odds", Some(<<"h2h", "spreads">>)>>}

\* upstream as a concurrent request meets it: unreachable, or the feed
ConcBehaviours == {"network", "feed"}

IdleThread ==
    [pc |-> "idle", route |-> "none", markets |-> None, key |-> "",
     found |-> None, result |-> None, upstream |-> 0, stores |-> 0]

InitConc ==
    /\ api_key = "test-key"
    /\ cache = <<>>
    /\ now = 0
    /\ call = NoCall
    /\ stored_by = <<>>
    /\ ncalls = 0
    /\ game = None
    /\ comparison = None
    /\ threads = [t \in Threads |-> IdleThread]
    /\ TransformIdle /\ HttpIdle /\ ProbIdle /\ AliasIdle /\ ScraperIdle

ConcUnchanged ==
    UNCHANGED <<api_key, now, call, stored_by, game, comparison,
                transformVars, http, probVars, aliasVars, scraperVars>>

\* the route calls get_nfl_odds once; the key check passes, the markets
\* default is applied and the cache key built
Begin(t) ==
    /\ ncalls < MaxCalls
    /\ threads[t].pc \in {"idle", "done"}
    /\ api_key # ""
    /\ \E rm \in RouteMarkets :
         LET markets == IF rm[2] = None THEN DEFAULT_MARKETS ELSE rm[2][1]
         IN threads' = [threads EXCEPT ![t] =
                [IdleThread EXCEPT !.pc = "lookup", !.route = rm[1],
                                   !.markets = Some(markets),
                                   !.key = cache_key(markets)]]
    /\ ncalls' = ncalls + 1
    /\ UNCHANGED cache
    /\ ConcUnchanged

\* cached = self._get_cached_data(cache_key); if cached: return cached
Lookup(t) ==
    /\ threads[t].pc = "lookup"
    /\ LET cached == _get_cached_data(cache, threads[t].key, now)
       IN threads' = [threads EXCEPT ![t] =
              IF Truthy(cached)
              THEN [@ EXCEPT !.pc = "done", !.found = cached, !.result = cached]
              ELSE [@ EXCEPT !.pc = "fetch", !.found = cached]]
    /\ UNCHANGED <<cache, ncalls>>
    /\ ConcUnchanged

\* the try block up to the normalized result; a failure returns the error
Fetch(t) ==
    /\ threads[t].pc = "fetch"
    /\ \E behaviour \in ConcBehaviours :
         LET r == FetchOdds(cache, threads[t].key, threads[t].markets[1], None,
                            behaviour, now)
         IN threads' = [threads EXCEPT ![t] =
                [@ EXCEPT !.pc = IF r.writes = 1 THEN "store" ELSE "done",
                          !.result = Some(r.result),
                          !.upstream = @ + r.upstream]]
    /\ UNCHANGED <<cache, ncalls>>
    /\ ConcUnchanged

\* self._set_cached_data(cache_key, result); return result
Store(t) ==
    /\ threads[t].pc = "store"
    /\ cache' = _set_cached_data(cache, threads[t].key, threads[t].result[1], now)
    /\ threads' = [threads EXCEPT ![t] = [@ EXCEPT !.pc = "done", !.stores = @ + 1]]
    /\ UNCHANGED ncalls
    /\ ConcUnchanged

ConcTick ==
    /\ \E dt \in TickSteps : now + dt <= MaxNow /\ now' = now + dt
    /\ UNCHANGED <<api_key, cache, call, stored_by, ncalls, game, comparison,
                   transformVars, http, probVars, aliasVars, threads,
                   scraperVars>>

NextConc ==
    \/ \E t \in Threads : Begin(t)
    \/ \E t \in Threads : Lookup(t)
    \/ \E t \in Threads : Fetch(t)
    \/ \E t \in Threads : Store(t)
    \/ ConcTick

SpecConc == InitConc /\ [][NextConc]_vars

(***************************************************************************)
(* The two caches as objects: _get_cached_data / _set_cached_data of       *)
(* OddsAPIService and get_cached_data / set_cached_data of BaseScraper,    *)
(* called in any order while the clock advances.  A scraper method returns *)
(* what the call returns together with the map after the call.  cache_op   *)
(* is the last method call: whose cache, get or set, the key, and the data *)
(* returned (get) or stored (set).                                         *)
(***************************************************************************)
scraper_cache_duration == 300

\* get_cached_data that stamps the entry it returns with the time of the hit
get_cached_data_refreshing(c, key, clock) ==
    IF key \in DOMAIN c /\ clock - c[key][2] < scraper_cache_duration
    THEN [data |-> Some(c[key][1]), cache |-> Put(c, key, <<c[key][1], clock>>)]
    ELSE [data |-> None, cache |-> c]

\* BaseScraper.get_cached_data: time.time() - timestamp < self.cache_duration
get_cached_data(c, key, clock) ==
    IF key \in DOMAIN c /\ clock - c[key][2] < scraper_cache_duration
    THEN [data |-> Some(c[key][1]), cache |-> c]
    ELSE [data |-> None, cache |-> c]

\* BaseScraper.set_cached_data: self.cache[key] = (data, time.time())
set_cached_data(c, key, data, clock) == Put(c, key, <<data, clock>>)

ServiceKeys == {cache_key(DEFAULT_MARKETS), cache_key(<<"h2h">>)}
ServiceData == {[games |-> <<>>, count |-> 0], [games |-> <<"evt1">>, count |-> 1]}
ScraperKeys == {"nfl_games"}

ScrapedGame(sportsbook) ==
    [sportsbook |-> sportsbook, away_team |-> "Bills", home_team |-> "Chiefs"]

\* the lists a scraper stores: no game found, or the games of the page
ScraperData == {<<>>, <<ScrapedGame("DraftKings")>>}

CacheOp(owner, op, key, data) ==
    Some([owner |-> owner, op |-> op, key |-> key, data |-> data])

InitCache ==
    /\ api_key = "test-key"
    /\ cache = <<>>
    /\ now = 0
    /\ call = NoCall
    /\ stored_by = <<>>
    /\ ncalls = 0
    /\ game = None
    /\ comparison = None
    /\ TransformIdle /\ HttpIdle /\ ProbIdle /\ AliasIdle /\ ConcIdle
    /\ ScraperIdle

CacheFrame ==
    UNCHANGED <<api_key, now, call, stored_by, ncalls, game, comparison,
                transformVars, http, probVars, aliasVars, threads,
                scrape, scrape_stored>>

\* self._get_cached_data(key): no statement of it assigns to self.cache
ServiceGet ==
    /\ \E key \in ServiceKeys :
         cache_op' = CacheOp("service", "get", key, _get_cached_data(cache, key, now))
    /\ UNCHANGED <<cache, scraper_cache>>
    /\ CacheFrame

ServiceSet ==
    /\ \E key \in ServiceKeys, data \in ServiceData :
         /\ cache' = _set_cached_data(cache, key, data, now)
         /\ cache_op' = CacheOp("service", "set", key, Some(data))
    /\ UNCHANGED scraper_cache
    /\ CacheFrame

ScraperGet ==
    /\ \E key \in ScraperKeys :
         LET r == get_cached_data(scraper_cache, key, now)
         IN /\ scraper_cache' = r.cache
            /\ cache_op' = CacheOp("scraper", "get", key, r.data)
    /\ UNCHANGED cache
    /\ CacheFrame

ScraperSet ==
    /\ \E key \in ScraperKeys, data \in ScraperData :
         /\ scraper_cache' = set_cached_data(scraper_cache, key, data, now)
         /\ cache_op' = CacheOp("scraper", "set", key, Some(data))
    /\ UNCHANGED cache
    /\ CacheFrame

NextCache == ServiceGet \/ ServiceSet \/ ScraperGet \/ ScraperSet \/ Tick

SpecCache == InitCache /\ [][NextCache]_vars

(***************************************************************************)
(* The scrapers.  scrape_nfl_games has the same statements in the four     *)
(* scraper classes: the lookup of 'nfl_games', the page fetch, the parse   *)
(* and the store.  What get_page and the parse produce is the page         *)
(* behaviour: the fetch failed (get_page returns None), an exception       *)
(* reached the outer except, the page held no game, or it held games.      *)
(* The operator returns the list returned, the map afterwards, and the     *)
(* number of page fetches and of stores the call made.                     *)
(***************************************************************************)
Pages == {"failed", "error", "empty", "games"}

SPORTSBOOKS == {"DraftKings", "FanDuel", "BetMGM", "Caesars"}

PageGames(page, sportsbook) ==
    IF page = "games" THEN <<ScrapedGame(sportsbook)>> ELSE <<>>

\* `if cached:` -- None and the empty list are false
ListTruthy(cached) == cached # None /\ Len(cached[1]) > 0

Scraped(games, c, fetches, writes) ==
    [games |-> games, cache |-> c, fetches |-> fetches, writes |-> writes]

scrape_nfl_games(sportsbook, c, page, clock) ==
    LET cached == get_cached_data(c, "nfl_games", clock)
    IN IF ListTruthy(cached.data)
       THEN Scraped(cached.data[1], cached.cache, 0, 0)
       ELSE IF page \in {"failed", "error"}
       THEN Scraped(<<>>, cached.cache, 1, 0)
       ELSE LET games == PageGames(page, sportsbook)
            IN Scraped(games,
                       set_cached_data(cached.cache, "nfl_games", games, clock),
                       1, 1)

\* the entry under 'nfl_games' as a call finds it: None, or <<data, age>>
EntryBefore(c, clock) ==
    IF "nfl_games" \in DOMAIN c
    THEN Some([data |-> c["nfl_games"][1], age |-> clock - c["nfl_games"][2]])
    ELSE None

(***************************************************************************)
(* One scraper instance called repeatedly.                                 *)
(***************************************************************************)
InitScraper ==
    /\ api_key = ""
    /\ cache = <<>>
    /\ now = 0
    /\ call = NoCall
    /\ stored_by = <<>>
    /\ ncalls = 0
    /\ game = None
    /\ comparison = None
    /\ TransformIdle /\ HttpIdle /\ ProbIdle /\ AliasIdle /\ ConcIdle
    /\ ScraperIdle

ScrapeNflGames ==
    /\ ncalls < MaxCalls
    /\ \E page \in Pages :
         LET r == scrape_nfl_games("DraftKings", scraper_cache, page, now)
         IN /\ scraper_cache' = r.cache
            /\ scrape' = Some([sportsbook |-> "DraftKings", page |-> page,
                               before |-> EntryBefore(scraper_cache, now),
                               games |-> r.games, fetches |-> r.fetches,
                               writes |-> r.writes])
    /\ ncalls' = ncalls + 1
    /\ UNCHANGED <<api_key, cache, now, call, stored_by, game, comparison,
                   transformVars, http, probVars, aliasVars, threads,
                   scrape_stored, cache_op>>

NextScraper == ScrapeNflGames \/ Tick

SpecScraper == InitScraper /\ [][NextScraper]_vars

(***************************************************************************)
(* The /api/scrape/<sportsbook> routes: each request builds a scraper of   *)
(* the sportsbook's class, calls scrape_nfl_games on it and answers with   *)
(* the games; the scraper is a local of the request.                       *)
(***************************************************************************)
\* BaseScraper.__init__: self.cache = {}
NewScraperCache == <<>>

scrape_route(sportsbook, page, clock) ==
    LET r == scrape_nfl_games(sportsbook, NewScraperCache, page, clock)
    IN [status |-> 200, body |-> [sportsbook |-> sportsbook, games |-> r.games],
        fetches |-> r.fetches, writes |-> r.writes]

\* scrape_stored[sportsbook] with its age, as a request finds it
StoredBefore(sportsbook) ==
    IF sportsbook \in DOMAIN scrape_stored
    THEN Some([data |-> scrape_stored[sportsbook][1],
               age |-> now - scrape_stored[sportsbook][2]])
    ELSE None

HandleScrape ==
    /\ ncalls < MaxCalls
    /\ \E sportsbook \in SPORTSBOOKS, page \in Pages :
         LET response == scrape_route(sportsbook, page, now)
         IN /\ scrape' = Some([sportsbook |-> sportsbook, page |-> page,
                               before |-> StoredBefore(sportsbook),
                               status |-> response.status,
                               games |-> response.body.games,
                               fetches |-> response.fetches,
                               writes |-> response.writes])
            /\ scrape_stored' =
                 IF response.writes = 0 THEN scrape_stored
                 ELSE Put(scrape_stored, sportsbook, <<response.body.games, now>>)
    /\ ncalls' = ncalls + 1
    /\ UNCHANGED <<api_key, cache, now, call, stored_by, game, comparison,
                   transformVars, http, probVars, aliasVars, threads,
                   scraper_cache, cache_op>>

NextScrapeHttp == HandleScrape \/ Tick

SpecScrapeHttp == InitScraper /\ [][NextScrapeHttp]_vars

(***************************************************************************)
(* Properties of the service (checked under Spec).                         *)
(***************************************************************************)
OddsCall(c) == c.op = "get_nfl_odds"
HasError(result) == "error" \in DOMAIN result
FromCache(c) == OddsCall(c) /\ c.reads = 1 /\ c.upstream = 0
Markets(markets_arg) == IF markets_arg = None THEN DEFAULT_MARKETS ELSE markets_arg[1]

\* a and b list the same markets, in any order
IsPermutation(a, b) ==
    /\ Len(a) = Len(b)
    /\ \A m \in {a[i] : i \in DOMAIN a} \cup {b[i] : i \in DOMAIN b} :
         Cardinality({i \in DOMAIN a : a[i] = m})
           = Cardinality({i \in DOMAIN b : b[i] = m})

\* C1: the cache key does not depend on the order of the markets: a
\* get_nfl_odds call made while the cache holds a still valid response that
\* was fetched for a permutation of its market list is answered from the
\* cache, without an upstream request.
C1_KeyIgnoresMarketOrder ==
    [][(/\ ncalls' = ncalls + 1
        /\ OddsCall(call')
        /\ api_key # ""
        /\ \E k \in DOMAIN cache :
              /\ now - cache[k][2] < cache_duration
              /\ IsPermutation(Markets(stored_by[k].markets), Markets(call'.markets)))
       => FromCache(call')]_vars

\* C2: the cache key includes the bookmaker filter: a get_nfl_odds call that
\* is answered from the cache gets a response that was fetched for its own
\* bookmaker filter.
C2_KeyIncludesBookmakers ==
    FromCache(call) => stored_by[call.key[1]].sportsbooks = call.sportsbooks

\* C3: a get_nfl_odds call that finds an entry for its key of age
\* now - t < 300 returns exactly the stored response and leaves the cache
\* alone; with now - t >= 300 it is a miss: upstream is asked again and the
\* response it gives is stored at the current instant.
C3_TtlWindow ==
    [][(ncalls' = ncalls + 1 /\ OddsCall(call') /\ api_key # "")
       => LET k == cache_key(Markets(call'.markets))
          IN k \in DOMAIN cache =>
               IF now - cache[k][2] < 300
               THEN /\ call'.result = cache[k][1]
                    /\ call'.upstream = 0
                    /\ cache' = cache
               ELSE /\ call'.upstream = 1
                    /\ ~HasError(call'.result) =>
                          /\ cache'[k] = <<call'.result, now>>
                          /\ call'.result.timestamp = now]_vars

\* C3 witness: an entry stored exactly 300 s earlier was found, upstream was
\* asked again and the new response replaced the entry.
C3_Witness ==
    /\ OddsCall(call) /\ call.age = Some(300)
    /\ call.upstream = 1 /\ call.writes = 1
    /\ cache[call.key[1]] = <<call.result, now>>

\* C4: a get_nfl_odds call that returns an error leaves the cache map as it
\* was, and no cache entry ever holds an error result.
C4_FailureNotCached ==
    [][/\ (ncalls' = ncalls + 1 /\ OddsCall(call') /\ HasError(call'.result))
             => cache' = cache
       /\ \A k \in DOMAIN cache' : ~HasError(cache'[k][1])]_vars

\* C4 witness: a fetch failed upstream while the cache held an expired entry
\* for its key, and the entry is still there.
C4_Witness ==
    /\ OddsCall(call) /\ HasError(call.result) /\ call.upstream = 1
    /\ call.age # None /\ call.age[1] >= 300
    /\ call.key[1] \in DOMAIN cache

\* C5: for every upstream failure (network error or timeout, error status,
\* a 200 body that is not a list of events) get_nfl_odds returns a result
\* with an error description and an empty games list.
C5_FailureReturnsError ==
    (OddsCall(call) /\ call.behaviour \in {"network", "status", "object", "number"})
        => HasError(call.result) /\ call.result.games = <<>>

\* C6: without an API key every service method returns its not-configured
\* result, makes no upstream request and neither reads nor writes the cache.
C6_NotConfigured ==
    [][(ncalls' = ncalls + 1 /\ api_key = "")
       => /\ call'.upstream = 0 /\ call'.reads = 0 /\ call'.writes = 0
          /\ cache' = cache
          /\ call'.op = "get_nfl_odds" =>
                call'.result = [error |-> "No API key configured", games |-> <<>>]
          /\ call'.op = "get_nfl_event_odds" =>
                call'.result = [error |-> "No API key configured"]
          /\ call'.op = "get_available_sports" =>
                call'.result = JsonList(<<>>)]_vars

\* C6 witness: get_nfl_odds was called on a service without a key.
C6_Witness ==
    api_key = "" /\ OddsCall(call) /\ HasError(call.result) /\ call.upstream = 0

(***************************************************************************)
(* Properties of the comparison (checked under SpecCompare).  What a       *)
(* bookmaker offers is read off the game itself, not off the operators     *)
(* that model the code.                                                    *)
(***************************************************************************)
Books == game[1].bookmakers
Slot(market, side) == comparison[1].best_odds[market][side]

MarketKey(market) ==
    IF market = "moneyline" THEN "h2h"
    ELSE IF market = "spread" THEN "spreads" ELSE "totals"

OutcomeName(market, side) ==
    IF market = "total" THEN (IF side = "over" THEN "Over" ELSE "Under")
    ELSE IF side = "home" THEN game[1].home_team[1] ELSE game[1].away_team[1]

\* the price bookmaker i offers for the side, None when it offers none:
\* no line, no such outcome, a null price or the unset sentinel 0
Offer(i, market, side) ==
    LET ms == Books[i].markets
        mk == MarketKey(market)
        name == OutcomeName(market, side)
    IN IF mk \in DOMAIN ms /\ name \in DOMAIN ms[mk]
          /\ ms[mk][name].price \notin {None, Some(0)}
       THEN ms[mk][name].price
       ELSE None

Offering(market, side) == {i \in DOMAIN Books : Offer(i, market, side) # None}

\* the slot holds the title and price of a bookmaker offering the maximum
BestOf(market, side) ==
    /\ Slot(market, side) # None
    /\ \E i \in Offering(market, side) :
          /\ Slot(market, side)[1] =
                [bookmaker |-> Books[i].title, price |-> Offer(i, market, side)[1]]
          /\ \A j \in Offering(market, side) :
                Offer(j, market, side)[1] <= Offer(i, market, side)[1]

MoneylineSlots == {<<"moneyline", "home">>, <<"moneyline", "away">>}
LineSlots ==
    {<<"spread", "home">>, <<"spread", "away">>,
     <<"total", "over">>, <<"total", "under">>}

\* C7: for each moneyline side some bookmaker offers, the result holds the
\* title and price of a bookmaker whose price is the numeric maximum of the
\* prices offered for that side.
C7_BestMoneyline ==
    comparison # None =>
        \A s \in MoneylineSlots :
            Offering(s[1], s[2]) # {} => BestOf(s[1], s[2])

\* C7 witness: two bookmakers offer the home side and the second, with the
\* higher price, is the one selected.
C7_Witness ==
    /\ comparison # None /\ Len(Books) = 2
    /\ Offer(1, "moneyline", "home") = Some(-110)
    /\ Offer(2, "moneyline", "home") = Some(150)
    /\ Slot("moneyline", "home") = Some([bookmaker |-> Some("BookB"), price |-> 150])

\* C8: among the bookmakers offering the selected price for a moneyline
\* side, the one selected is the first of the game's bookmaker sequence.
C8_FirstWinsTie ==
    comparison # None =>
        \A s \in MoneylineSlots :
            \A i \in Offering(s[1], s[2]) :
                (Slot(s[1], s[2]) # None
                 /\ Offer(i, s[1], s[2])[1] = Slot(s[1], s[2])[1].price)
                => \E k \in 1..i :
                      /\ Books[k].title = Slot(s[1], s[2])[1].bookmaker
                      /\ Offer(k, s[1], s[2]) = Offer(i, s[1], s[2])

\* C8 witness: both bookmakers offer the best away price and the first one
\* is selected.
C8_Witness ==
    /\ comparison # None /\ Len(Books) = 2
    /\ Offer(1, "moneyline", "away") = Some(150)
    /\ Offer(2, "moneyline", "away") = Some(150)
    /\ Slot("moneyline", "away") = Some([bookmaker |-> Some("BookA"), price |-> 150])

\* C9: the spread and total slots hold the best offer as the moneyline
\* slots do, and are non-null whenever a bookmaker offers the side.
C9_AllMarketsCompared ==
    comparison # None =>
        \A s \in LineSlots :
            Offering(s[1], s[2]) # {} => BestOf(s[1], s[2])

\* C10: a slot whose side no bookmaker offers is null, in every market; in
\* particular every slot is null for a game without bookmakers.  The
\* comparison returns a result for every game.
C10_NoOfferIsNull ==
    comparison # None =>
        /\ \A s \in MoneylineSlots \cup LineSlots :
              Offering(s[1], s[2]) = {} => Slot(s[1], s[2]) = None
        /\ Len(Books) = 0 =>
              comparison[1].best_odds =
                 [moneyline |-> [home |-> None, away |-> None],
                  spread |-> [home |-> None, away |-> None],
                  total |-> [over |-> None, under |-> None]]

\* C10 witness: the only prices quoted for the home side are null and 0,
\* the away side is offered; the home slot is null, the away slot is not.
C10_Witness ==
    /\ comparison # None /\ Len(Books) = 2
    /\ Books[1].markets = [k \in {"h2h"} |->
           [t \in {"Chiefs", "Bills"} |->
               [price |-> IF t = "Chiefs" THEN Some(0) ELSE Some(-110),
                point |-> None]]]
    /\ "h2h" \in DOMAIN Books[2].markets
    /\ "Chiefs" \in DOMAIN Books[2].markets["h2h"]
    /\ Books[2].markets["h2h"]["Chiefs"].price = None
    /\ Slot("moneyline", "home") = None
    /\ Slot("moneyline", "away") # None

(***************************************************************************)
(* Properties of the normalizer (checked under SpecTransform).             *)
(***************************************************************************)
RawItems == raw[1].items
Returned == normalized[1]
GamesOut == Returned[1].games

\* the raw event carries both team names
HasTeams(item) ==
    item.type = "object"
    /\ {"home_team", "away_team"} \subseteq DOMAIN item.members

\* every outcome of the raw bookmaker has a name
BookParses(bookmaker) ==
    \A i \in DOMAIN bookmaker.markets :
        \A j \in DOMAIN bookmaker.markets[i].outcomes :
            "name" \in DOMAIN bookmaker.markets[i].outcomes[j]

RawBooks(item) == GetOr(item.members, "bookmakers", <<>>)

EventParses(item) ==
    item.type = "object"
    /\ \A i \in DOMAIN RawBooks(item) : BookParses(RawBooks(item)[i])

\* the ids of the raw events with both team names, in batch order
RECURSIVE IdsWithTeams(_)
IdsWithTeams(items) ==
    IF Len(items) = 0 THEN <<>>
    ELSE (IF HasTeams(Head(items)) THEN <<Some(Head(items).members.id)>> ELSE <<>>)
         \o IdsWithTeams(Tail(items))

\* C11: of a batch whose entries all parse, the games returned are exactly
\* the events that carry home_team and away_team, count is the length of
\* the games list and the result has no error.
C11_SkipsIncompleteEvents ==
    (normalized # None /\ \A i \in DOMAIN RawItems : EventParses(RawItems[i]))
    => /\ Returned # None
       /\ ~HasError(Returned[1])
       /\ [i \in DOMAIN GamesOut |-> GamesOut[i].id] = IdsWithTeams(RawItems)
       /\ Returned[1].count = Len(GamesOut)

\* C12: every outcome kept in a normalized moneyline or spread market of a
\* game that has both teams is named after its home team or its away team.
C12_UnknownOutcomeDropped ==
    (normalized # None /\ Returned # None)
    => \A g \in DOMAIN GamesOut :
         (GamesOut[g].home_team # None /\ GamesOut[g].away_team # None) =>
         \A b \in DOMAIN GamesOut[g].bookmakers :
           \A mk \in DOMAIN GamesOut[g].bookmakers[b].markets \cap {"h2h", "spreads"} :
             \A name \in DOMAIN GamesOut[g].bookmakers[b].markets[mk] :
               Some(name) \in {GamesOut[g].home_team, GamesOut[g].away_team}

\* C20: a bookmaker or market entry that fails to parse takes nothing else
\* with it: every bookmaker of a raw event whose own markets parse is
\* returned under its event, and the result has no error.
C20_ParseFailureContained ==
    normalized # None
    => /\ Returned # None
       /\ ~HasError(Returned[1])
       /\ \A i \in DOMAIN RawItems :
            RawItems[i].type = "object" =>
              \A b \in DOMAIN RawBooks(RawItems[i]) :
                BookParses(RawBooks(RawItems[i])[b]) =>
                  \E g \in DOMAIN GamesOut :
                    /\ GamesOut[g].id = Some(RawItems[i].members.id)
                    /\ \E k \in DOMAIN GamesOut[g].bookmakers :
                          GamesOut[g].bookmakers[k].key
                             = Some(RawBooks(RawItems[i])[b].key)

(***************************************************************************)
(* Properties of the HTTP routes (checked under SpecHttp).                 *)
(***************************************************************************)
\* C13: a GET /api/odds/nfl that asked upstream answers 200 exactly when the
\* body it returns is a games payload without an error.
C13_FailureIsNot200 ==
    (http # None /\ http[1].route = "nfl_odds" /\ http[1].upstream = 1)
    => (http[1].status = 200 <=> ~HasError(http[1].service))

\* the request asked upstream for an event id upstream does not know
UnknownEvent ==
    /\ http # None /\ http[1].route = "event_odds"
    /\ http[1].args.event_id = "unknown"
    /\ http[1].upstream = 1 /\ http[1].behaviour \in {"feed", "object", "number"}

\* the compare request got the games and none of them matches its teams
NoGameMatches ==
    /\ http # None /\ http[1].route = "compare"
    /\ ~HasError(http[1].service)
    /\ \A i \in DOMAIN http[1].service.games :
          ~GameMatches(http[1].service.games[i],
                       http[1].args.home_team, http[1].args.away_team)

C14_UnknownEventIs404 == UnknownEvent => http[1].status = 404
C14_NoGameIs404 == NoGameMatches => http[1].status = 404

\* C14: an unknown event id on /api/odds/nfl/<event_id> and a compare
\* request that matches no game are both answered with status 404.
C14_NotFoundIs404 == C14_UnknownEventIs404 /\ C14_NoGameIs404

(***************************************************************************)
(* Properties of the implied probability (checked under SpecProb).         *)
(***************************************************************************)
\* comparisons of a fraction with an integer percentage
Below(q, k) == q.num < k * q.den
Above(q, k) == q.num > k * q.den
Exactly(q, k) == q.num = k * q.den

\* C15: odds p <= -100 give a probability in [50, 100), exactly 50 at -100
\* and above 50 below it; odds p >= 100 give a probability in (0, 50],
\* exactly 50 at 100 and below 50 above it.
C15_ImpliedProbabilityRange ==
    probability # None
    => LET p == american_odds
           q == probability[1]
       IN /\ p <= -100 => /\ ~Below(q, 50) /\ Below(q, 100)
                          /\ p = -100 => Exactly(q, 50)
                          /\ p < -100 => Above(q, 50)
          /\ p >= 100 => /\ Above(q, 0) /\ ~Above(q, 50)
                         /\ p = 100 => Exactly(q, 50)
                         /\ p > 100 => Below(q, 50)

\* a favourite's probability strictly between 50 and 100 has been computed
C15_Witness ==
    /\ probability # None
    /\ american_odds < -100
    /\ Above(probability[1], 50) /\ Below(probability[1], 100)

(***************************************************************************)
(* Properties of the cached objects (checked under SpecAlias).             *)
(***************************************************************************)
\* C16: what a cache hit returns is the value that was stored for its key,
\* whatever callers did with the responses they were handed.
C16_CacheNotAliased ==
    (held # None /\ held[1].hit)
    => held[1].returned = stored_value[held[1].key]

(***************************************************************************)
(* Properties of concurrent requests (checked under SpecConc).             *)
(***************************************************************************)
\* every entry is a whole (response, timestamp) pair of a successful fetch
EntriesComplete ==
    \A k \in DOMAIN cache :
        /\ Len(cache[k]) = 2
        /\ "games" \in DOMAIN cache[k][1] /\ ~HasError(cache[k][1])
        /\ cache[k][2] \in 0..now

EntryChanged(k) ==
    k \notin DOMAIN cache \/ k \notin DOMAIN cache' \/ cache[k] # cache'[k]

\* an entry changes only by the store of one thread that fetched for that
\* key, to the pair of that thread's response and the time of the store,
\* and no other key changes in the same step
WrittenByOneFetch ==
    \A k \in DOMAIN cache \cup DOMAIN cache' :
        EntryChanged(k) =>
            /\ \E t \in Threads :
                 /\ threads[t].pc = "store" /\ threads'[t].pc = "done"
                 /\ threads[t].key = k /\ threads[t].upstream = 1
                 /\ ~HasError(threads[t].result[1])
                 /\ k \in DOMAIN cache'
                 /\ cache'[k] = <<threads[t].result[1], now>>
            /\ \A other \in (DOMAIN cache \cup DOMAIN cache') \ {k} :
                 ~EntryChanged(other)

\* what a lookup found is the response of the entry as it was stored
LookupSeesWholeEntry ==
    \A t \in Threads :
        (threads[t].pc = "lookup" /\ threads'[t].pc # "lookup"
         /\ threads'[t].found # None)
        => /\ threads[t].key \in DOMAIN cache
           /\ threads'[t].found = Some(cache[threads[t].key][1])

\* C17: under every interleaving of concurrent get_nfl_odds requests each
\* cache entry is a complete pair written by one successful fetch for its
\* key, a write to one key changes no other key, and a lookup never sees a
\* partly written entry.
C17_CacheNeverCorrupted ==
    /\ []EntriesComplete
    /\ [][WrittenByOneFetch /\ LookupSeesWholeEntry]_vars

\* two requests for different keys have both stored and both entries stand
C17_Witness ==
    \E t1, t2 \in Threads :
        /\ threads[t1].key # threads[t2].key
        /\ threads[t1].stores = 1 /\ threads[t2].stores = 1
        /\ {threads[t1].key, threads[t2].key} \subseteq DOMAIN cache

Hit(t) == threads[t].found # None

\* C18: a request makes at most one upstream call and none on a cache hit,
\* and every request that missed and fetched successfully made its own
\* upstream call and its own store, whatever the other request was doing.
C18_OneUpstreamCallNoCoalescing ==
    \A t \in Threads :
        /\ threads[t].upstream <= 1
        /\ Hit(t) => threads[t].upstream = 0 /\ threads[t].stores = 0
        /\ (threads[t].pc = "done" /\ ~Hit(t) /\ ~HasError(threads[t].result[1]))
           => threads[t].upstream = 1 /\ threads[t].stores = 1

\* two concurrent misses on one key: each called upstream, each stored, and
\* the entry is the response of one of them, not of the other
C18_Witness ==
    \E t1, t2 \in Threads :
        /\ t1 # t2 /\ threads[t1].key = threads[t2].key
        /\ threads[t1].pc = "done" /\ threads[t2].pc = "done"
        /\ ~Hit(t1) /\ ~Hit(t2)
        /\ threads[t1].upstream = 1 /\ threads[t2].upstream = 1
        /\ threads[t1].stores = 1 /\ threads[t2].stores = 1
        /\ threads[t1].result # threads[t2].result
        /\ cache[threads[t1].key][1] = threads[t2].result[1]

MapOf(owner) == IF owner = "service" THEN cache ELSE scraper_cache
MapAfter(owner) == IF owner = "service" THEN cache' ELSE scraper_cache'
TtlOf(owner) == IF owner = "service" THEN cache_duration ELSE scraper_cache_duration

\* a map changes only in a set, and then by the one entry <<data, now>>
OnlySetWrites ==
    (cache' # cache \/ scraper_cache' # scraper_cache)
    => /\ cache_op'[1].op = "set"
       /\ MapAfter(cache_op'[1].owner)
             = Put(MapOf(cache_op'[1].owner), cache_op'[1].key,
                   <<cache_op'[1].data[1], now>>)
       /\ cache_op'[1].owner = "service" => scraper_cache' = scraper_cache
       /\ cache_op'[1].owner = "scraper" => cache' = cache

\* a get returns the entry's data exactly while the entry is younger than
\* the ttl, counted from the set that wrote it, and an expired entry it does
\* not return is still in the map after the get
GetReadsOnly ==
    (cache_op' # cache_op /\ cache_op'[1].op = "get")
    => LET op == cache_op'[1]
           m == MapOf(op.owner)
       IN /\ cache' = cache /\ scraper_cache' = scraper_cache
          /\ op.data # None
             => /\ op.key \in DOMAIN m
                /\ op.data = Some(m[op.key][1])
                /\ now - m[op.key][2] < TtlOf(op.owner)
          /\ (op.data = None /\ op.key \in DOMAIN m)
             => /\ now - m[op.key][2] >= TtlOf(op.owner)
                /\ MapAfter(op.owner)[op.key] = m[op.key]

\* C21: a cache get leaves the map as it was: a hit keeps the entry's
\* stored-at instant, so the entry is served for less than the ttl after
\* the set that wrote it however many hits there are, and an expired entry
\* stays in the map until a set overwrites it.
C21_GetLeavesMapUnchanged == [][OnlySetWrites /\ GetReadsOnly]_vars

\* a scraper get has missed on an expired entry, which is still in the map
C21_Witness ==
    /\ cache_op # None
    /\ cache_op[1].owner = "scraper" /\ cache_op[1].op = "get"
    /\ cache_op[1].data = None
    /\ cache_op[1].key \in DOMAIN scraper_cache
    /\ now - scraper_cache[cache_op[1].key][2] >= scraper_cache_duration

(***************************************************************************)
(* Properties of the scrapers (SpecScrapeHttp for C22, SpecScraper for     *)
(* C23).                                                                   *)
(***************************************************************************)
\* the entry a call or request found was written less than 300 s before
FoundValid ==
    /\ scrape # None
    /\ scrape[1].before # None
    /\ scrape[1].before[1].age < scraper_cache_duration

\* C22: a request for a sportsbook whose games an earlier request stored
\* less than 300 s before is answered with those games without a page fetch.
C22_SharedAcrossRequests ==
    (FoundValid /\ Len(scrape[1].before[1].data) > 0)
    => /\ scrape[1].fetches = 0
       /\ scrape[1].games = scrape[1].before[1].data

\* a call whose page fetch failed stores nothing and returns the empty list
C23_FailedFetchStoresNothing ==
    (scrape # None /\ scrape[1].fetches = 1 /\ scrape[1].page = "failed")
    => /\ scrape[1].writes = 0
       /\ scrape[1].games = <<>>

\* C23: on one scraper, a call that finds a result stored less than 300 s
\* before returns it without a page fetch, whatever the result is; a call
\* whose page fetch failed stores nothing and returns the empty list.
C23_StoredResultReused ==
    /\ FoundValid
       => /\ scrape[1].fetches = 0
          /\ scrape[1].games = scrape[1].before[1].data
    /\ C23_FailedFetchStoresNothing
====
